---- MODULE Spec2Model ----
(***************************************************************************)
(* Model of the call-payload codec (src/src/aptos_types/index.ts) and of   *)
(* the ABI-driven transaction builders (src/unnamed/part_000 and           *)
(* src/src/transaction_builder/builders.ts).                               *)
(*                                                                         *)
(* Bytes are sequences over 0..255.  Unsigned integers of every width are  *)
(* kept as their little-endian byte string without trailing zero bytes,    *)
(* so that 64-, 128- and 256-bit values keep their width.                  *)
(***************************************************************************)
EXTENDS Integers, Sequences, FiniteSets, TLC

VARIABLES
    cpc,      \* codec run: "input" | "serialized" | "deserialized"
    cin,      \* codec run: the input, [mode, union, x, tail]
    wire,     \* codec run: the buffer handed to the Deserializer
    cout,     \* codec run: the outcome of deserialize, [ok, err, v, rest]
    phase,    \* builder: "Unindexed" | "Indexed" | "Failed"
    impl,     \* builder: which copy of the builder source is running
    abis,     \* builder: the ABI documents given to the constructor
    abiMap,   \* builder: TransactionBuilderABI.abiMap, a function from its keys
    last      \* builder: the invocation the caller is in, and its outcome

codecVars == <<cpc, cin, wire, cout>>
builderVars == <<phase, impl, abis, abiMap, last>>
vars == <<cpc, cin, wire, cout, phase, impl, abis, abiMap, last>>

(***************************************************************************)
(* Bounds of the model.                                                    *)
(***************************************************************************)
MaxIndex == 11        \* raw variant indices 0..MaxIndex are tried, and two-byte ones
MaxSeq == 2          \* longest signer sequence of a codec input
MaxAbis == 2         \* most ABI documents given to a constructor
MaxArgs == 2         \* most raw arguments given to a build

(***************************************************************************)
(* Primitive codec (../bcs): Serializer / Deserializer.                    *)
(***************************************************************************)
Zeros(n) == [i \in 1..n |-> 0]

Drop(s, n) == SubSeq(s, n + 1, Len(s))

Take(s, n) == SubSeq(s, 1, n)

RECURSIVE Trim(_)
Trim(s) == IF s # <<>> /\ s[Len(s)] = 0 THEN Trim(Take(s, Len(s) - 1)) ELSE s

\* what a read yields: the value and the unread rest of the buffer, or the
\* message of the Error thrown
Ok(v, rest) == [ok |-> TRUE, err |-> "", v |-> v, rest |-> rest]

Fail(e) == [ok |-> FALSE, err |-> e, v |-> <<>>, rest |-> <<>>]

\* const r = <read>; <F>: the statements after a read run on what it
\* returned, and an Error it threw ends the method
Then(r, F(_)) == IF r.ok THEN F(r) ELSE r

\* const v = <expression>; <F>
Let(v, F(_)) == F(v)

ErrEnd == "Reached to the end of buffer"

RECURSIVE serializeU32AsUleb128(_)
serializeU32AsUleb128(n) ==
    IF n < 128 THEN <<n>>
    ELSE <<128 + (n % 128)>> \o serializeU32AsUleb128(n \div 128)

RECURSIVE deserializeUleb128AsU32(_)
deserializeUleb128AsU32(b) ==
    IF b = <<>> THEN Fail(ErrEnd)
    ELSE IF b[1] < 128 THEN Ok(b[1], Tail(b))
    ELSE Then(deserializeUleb128AsU32(Tail(b)),
              LAMBDA r : Ok((b[1] - 128) + 128 * r.v, r.rest))

\* serializeU8/U16/U32/U64/U128/U256: w little-endian bytes of the value
serializeUint(v, w) == v \o Zeros(w - Len(v))

deserializeUint(b, w) ==
    IF Len(b) < w THEN Fail(ErrEnd) ELSE Ok(Trim(Take(b, w)), Drop(b, w))

serializeBool(v) == IF v THEN <<1>> ELSE <<0>>

deserializeBool(b) ==
    IF b = <<>> THEN Fail(ErrEnd)
    ELSE IF b[1] = 0 THEN Ok(FALSE, Tail(b))
    ELSE IF b[1] = 1 THEN Ok(TRUE, Tail(b))
    ELSE Fail("Invalid boolean value")

serializeBytes(v) == serializeU32AsUleb128(Len(v)) \o v

deserializeBytes(b) ==
    Then(deserializeUleb128AsU32(b),
         LAMBDA n : IF Len(n.rest) < n.v THEN Fail(ErrEnd)
                    ELSE Ok(Take(n.rest, n.v), Drop(n.rest, n.v)))

\* Strings are TLA+ strings over printable ASCII; TextEncoder / TextDecoder
\* map each character to and from its one-byte UTF-8 code: AsciiLow holds the
\* characters of codes 32..95 and AsciiHigh those of codes 97..126.
AsciiLow == " !\"#$%&'()*+,-./0123456789:;<=>?@ABCDEFGHIJKLMNOPQRSTUVWXYZ[\\]^_"

AsciiHigh == "abcdefghijklmnopqrstuvwxyz{|}~"

CharAt(s, i) == SubSeq(s, i, i)

RECURSIVE IndexIn(_, _, _)
IndexIn(c, alphabet, i) ==
    IF i > Len(alphabet) THEN 0
    ELSE IF CharAt(alphabet, i) = c THEN i
    ELSE IndexIn(c, alphabet, i + 1)

CharCode(c) ==
    Let(IndexIn(c, AsciiLow, 1),
        LAMBDA low : IF low > 0 THEN 31 + low ELSE 96 + IndexIn(c, AsciiHigh, 1))

CodeChar(n) ==
    IF n >= 32 /\ n <= 95 THEN CharAt(AsciiLow, n - 31)
    ELSE IF n >= 97 /\ n <= 126 THEN CharAt(AsciiHigh, n - 96)
    ELSE "?"

RECURSIVE utf8Encode(_)
utf8Encode(s) ==
    IF Len(s) = 0 THEN <<>> ELSE <<CharCode(Head(s))>> \o utf8Encode(Tail(s))

RECURSIVE utf8Decode(_)
utf8Decode(b) ==
    IF b = <<>> THEN "" ELSE CodeChar(b[1]) \o utf8Decode(Tail(b))

serializeStr(s) == serializeBytes(utf8Encode(s))

deserializeStr(b) ==
    Then(deserializeBytes(b), LAMBDA r : Ok(utf8Decode(r.v), r.rest))

AddressLength == 32

AccountAddress_serialize(a) == a

AccountAddress_deserialize(b) ==
    IF Len(b) < AddressLength THEN Fail(ErrEnd)
    ELSE Ok(Take(b, AddressLength), Drop(b, AddressLength))

Identifier_serialize(s) == serializeStr(s)

Identifier_deserialize(b) == deserializeStr(b)

(***************************************************************************)
(* Variant codec: src/src/aptos_types/index.ts.                            *)
(* A value of a tagged union is a record [k |-> class name, value |-> ..]. *)
(* Serialize(cls, x) is x.serialize(serializer) for x of class cls, and    *)
(* Deserialize(cls, b) is cls.deserialize(deserializer) over the buffer b. *)
(***************************************************************************)
RECURSIVE Serialize(_, _)
RECURSIVE Deserialize(_, _)
RECURSIVE serializeItems(_, _)
RECURSIVE deserializeItems(_, _, _)

\* ../bcs helpers: a ULEB128 length, then each element
serializeItems(s, cls) ==
    IF s = <<>> THEN <<>>
    ELSE Serialize(cls, s[1]) \o serializeItems(Tail(s), cls)

serializeVector(s, cls) == serializeU32AsUleb128(Len(s)) \o serializeItems(s, cls)

deserializeItems(b, cls, n) ==
    IF n = 0 THEN Ok(<<>>, b)
    ELSE Then(Deserialize(cls, b), LAMBDA h :
         Then(deserializeItems(h.rest, cls, n - 1), LAMBDA t :
              Ok(<<h.v>> \o t.v, t.rest)))

deserializeVector(b, cls) ==
    Then(deserializeUleb128AsU32(b), LAMBDA n : deserializeItems(n.rest, cls, n.v))

\* ---- TypeTag (./type_tag) ----
TypeTagIndex(k) ==
    CASE k = "TypeTagBool" -> 0 [] k = "TypeTagU8" -> 1 [] k = "TypeTagU64" -> 2
      [] k = "TypeTagU128" -> 3 [] k = "TypeTagAddress" -> 4
      [] k = "TypeTagSigner" -> 5 [] k = "TypeTagVector" -> 6
      [] k = "TypeTagStruct" -> 7 [] k = "TypeTagU16" -> 8
      [] k = "TypeTagU32" -> 9 [] k = "TypeTagU256" -> 10

TypeTagPrimitive(i) ==
    CASE i = 0 -> "TypeTagBool" [] i = 1 -> "TypeTagU8" [] i = 2 -> "TypeTagU64"
      [] i = 3 -> "TypeTagU128" [] i = 4 -> "TypeTagAddress"
      [] i = 5 -> "TypeTagSigner" [] i = 8 -> "TypeTagU16"
      [] i = 9 -> "TypeTagU32" [] i = 10 -> "TypeTagU256"

StructTag_serialize(v) ==
    AccountAddress_serialize(v.address)
    \o Identifier_serialize(v.module_name)
    \o Identifier_serialize(v.name)
    \o serializeVector(v.type_args, "TypeTag")

TypeTag_serialize(t) ==
    serializeU32AsUleb128(TypeTagIndex(t.k)) \o
    (CASE t.k = "TypeTagVector" -> Serialize("TypeTag", t.value)
       [] t.k = "TypeTagStruct" -> StructTag_serialize(t.value)
       [] OTHER -> <<>>)

StructTag_deserialize(b) ==
    Then(AccountAddress_deserialize(b), LAMBDA a :
    Then(Identifier_deserialize(a.rest), LAMBDA m :
    Then(Identifier_deserialize(m.rest), LAMBDA n :
    Then(deserializeVector(n.rest, "TypeTag"), LAMBDA g :
         Ok([address |-> a.v, module_name |-> m.v, name |-> n.v, type_args |-> g.v],
            g.rest)))))

\* wrap the value a load has read in its variant class
Loaded(k, r) == IF r.ok THEN Ok([k |-> k, value |-> r.v], r.rest) ELSE r

TypeTag_deserialize(b) ==
    Then(deserializeUleb128AsU32(b), LAMBDA i :
         IF i.v \in {0, 1, 2, 3, 4, 5, 8, 9, 10}
         THEN Ok([k |-> TypeTagPrimitive(i.v)], i.rest)
         ELSE IF i.v = 6 THEN Loaded("TypeTagVector", Deserialize("TypeTag", i.rest))
         ELSE IF i.v = 7 THEN Loaded("TypeTagStruct", StructTag_deserialize(i.rest))
         ELSE Fail("Unknown variant index for TypeTag"))

\* ---- Script, EntryFunction ----
Script_serialize(v) == serializeBytes(v.code)

Script_deserialize(b) ==
    Then(deserializeBytes(b), LAMBDA c : Ok([code |-> c.v], c.rest))

\* variant of EntryFunction.serialize: the argument count that the source
\* keeps commented out is written after the function name
EntryFunction_serialize_withArgs(v) ==
    AccountAddress_serialize(v.module_address)
    \o Identifier_serialize(v.module_name)
    \o Identifier_serialize(v.function_name)
    \o serializeU32AsUleb128(0)

EntryFunction_serialize(v) ==
    AccountAddress_serialize(v.module_address)
    \o Identifier_serialize(v.module_name)
    \o Identifier_serialize(v.function_name)

EntryFunction_deserialize(b) ==
    Then(AccountAddress_deserialize(b), LAMBDA a :
    Then(Identifier_deserialize(a.rest), LAMBDA m :
    Then(Identifier_deserialize(m.rest), LAMBDA f :
         Ok([module_address |-> a.v, module_name |-> m.v, function_name |-> f.v],
            f.rest))))

\* ---- Call ----
CallScript_serialize(x) == serializeU32AsUleb128(0) \o Script_serialize(x.value)

CallScript_load(b) == Loaded("CallScript", Script_deserialize(b))

CallEntryFunction_serialize(x) ==
    serializeU32AsUleb128(1) \o EntryFunction_serialize(x.value)

CallEntryFunction_load(b) == Loaded("CallEntryFunction", EntryFunction_deserialize(b))

Call_serialize(x) ==
    CASE x.k = "CallScript" -> CallScript_serialize(x)
      [] x.k = "CallEntryFunction" -> CallEntryFunction_serialize(x)

Call_deserialize(b) ==
    Then(deserializeUleb128AsU32(b), LAMBDA index :
         CASE index.v = 0 -> CallScript_load(index.rest)
           [] index.v = 1 -> CallEntryFunction_load(index.rest)
           [] OTHER -> Fail("Unknown variant index for Call"))

\* ---- TransactionArgument ----
TransactionArgumentU8_serialize(x) ==
    serializeU32AsUleb128(0) \o serializeUint(x.value, 1)

\* variant of TransactionArgumentU16.serialize: the index of the class pasted
\* from (U32) was left in place
TransactionArgumentU16_serialize_pasted(x) ==
    serializeU32AsUleb128(7) \o serializeUint(x.value, 2)

TransactionArgumentU16_serialize(x) ==
    serializeU32AsUleb128(6) \o serializeUint(x.value, 2)

TransactionArgumentU32_serialize(x) ==
    serializeU32AsUleb128(7) \o serializeUint(x.value, 4)

TransactionArgumentU64_serialize(x) ==
    serializeU32AsUleb128(1) \o serializeUint(x.value, 8)

TransactionArgumentU128_serialize(x) ==
    serializeU32AsUleb128(2) \o serializeUint(x.value, 16)

TransactionArgumentU256_serialize(x) ==
    serializeU32AsUleb128(8) \o serializeUint(x.value, 32)

TransactionArgumentAddress_serialize(x) ==
    serializeU32AsUleb128(3) \o AccountAddress_serialize(x.value)

TransactionArgumentU8Vector_serialize(x) ==
    serializeU32AsUleb128(4) \o serializeBytes(x.value)

TransactionArgumentBool_serialize(x) ==
    serializeU32AsUleb128(5) \o serializeBool(x.value)

TransactionArgument_serialize(x) ==
    CASE x.k = "TransactionArgumentU8" -> TransactionArgumentU8_serialize(x)
      [] x.k = "TransactionArgumentU16" -> TransactionArgumentU16_serialize(x)
      [] x.k = "TransactionArgumentU32" -> TransactionArgumentU32_serialize(x)
      [] x.k = "TransactionArgumentU64" -> TransactionArgumentU64_serialize(x)
      [] x.k = "TransactionArgumentU128" -> TransactionArgumentU128_serialize(x)
      [] x.k = "TransactionArgumentU256" -> TransactionArgumentU256_serialize(x)
      [] x.k = "TransactionArgumentAddress" -> TransactionArgumentAddress_serialize(x)
      [] x.k = "TransactionArgumentU8Vector" -> TransactionArgumentU8Vector_serialize(x)
      [] x.k = "TransactionArgumentBool" -> TransactionArgumentBool_serialize(x)

TransactionArgumentU8_load(b) == Loaded("TransactionArgumentU8", deserializeUint(b, 1))

TransactionArgumentU16_load(b) == Loaded("TransactionArgumentU16", deserializeUint(b, 2))

TransactionArgumentU32_load(b) == Loaded("TransactionArgumentU32", deserializeUint(b, 4))

TransactionArgumentU64_load(b) == Loaded("TransactionArgumentU64", deserializeUint(b, 8))

TransactionArgumentU128_load(b) == Loaded("TransactionArgumentU128", deserializeUint(b, 16))

TransactionArgumentU256_load(b) == Loaded("TransactionArgumentU256", deserializeUint(b, 32))

TransactionArgumentAddress_load(b) ==
    Loaded("TransactionArgumentAddress", AccountAddress_deserialize(b))

TransactionArgumentU8Vector_load(b) ==
    Loaded("TransactionArgumentU8Vector", deserializeBytes(b))

TransactionArgumentBool_load(b) == Loaded("TransactionArgumentBool", deserializeBool(b))

\* variant of TransactionArgument.deserialize: cases 6 and 7 exchanged
TransactionArgument_deserialize_swapped(b) ==
    Then(deserializeUleb128AsU32(b), LAMBDA index :
         CASE index.v = 0 -> TransactionArgumentU8_load(index.rest)
           [] index.v = 1 -> TransactionArgumentU64_load(index.rest)
           [] index.v = 2 -> TransactionArgumentU128_load(index.rest)
           [] index.v = 3 -> TransactionArgumentAddress_load(index.rest)
           [] index.v = 4 -> TransactionArgumentU8Vector_load(index.rest)
           [] index.v = 5 -> TransactionArgumentBool_load(index.rest)
           [] index.v = 6 -> TransactionArgumentU32_load(index.rest)
           [] index.v = 7 -> TransactionArgumentU16_load(index.rest)
           [] index.v = 8 -> TransactionArgumentU256_load(index.rest)
           [] OTHER -> Fail("Unknown variant index for TransactionArgument"))

TransactionArgument_deserialize(b) ==
    Then(deserializeUleb128AsU32(b), LAMBDA index :
         CASE index.v = 0 -> TransactionArgumentU8_load(index.rest)
           [] index.v = 1 -> TransactionArgumentU64_load(index.rest)
           [] index.v = 2 -> TransactionArgumentU128_load(index.rest)
           [] index.v = 3 -> TransactionArgumentAddress_load(index.rest)
           [] index.v = 4 -> TransactionArgumentU8Vector_load(index.rest)
           [] index.v = 5 -> TransactionArgumentBool_load(index.rest)
           [] index.v = 6 -> TransactionArgumentU16_load(index.rest)
           [] index.v = 7 -> TransactionArgumentU32_load(index.rest)
           [] index.v = 8 -> TransactionArgumentU256_load(index.rest)
           [] OTHER -> Fail("Unknown variant index for TransactionArgument"))

\* ---- Signer ----
SignerRoot_serialize(x) == serializeU32AsUleb128(0)

SignerPlaceholder_serialize(x) == serializeU32AsUleb128(1)

SignerName_serialize(x) == serializeU32AsUleb128(2) \o serializeStr(x.value)

Signer_serialize(x) ==
    CASE x.k = "SignerRoot" -> SignerRoot_serialize(x)
      [] x.k = "SignerPlaceholder" -> SignerPlaceholder_serialize(x)
      [] x.k = "SignerName" -> SignerName_serialize(x)

SignerRoot_load(b) == Ok([k |-> "SignerRoot"], b)

SignerPlaceholder_load(b) == Ok([k |-> "SignerPlaceholder"], b)

SignerName_load(b) == Loaded("SignerName", deserializeStr(b))

\* variant of Signer.deserialize: the last case is the default branch
Signer_deserialize_default(b) ==
    Then(deserializeUleb128AsU32(b), LAMBDA index :
         CASE index.v = 0 -> SignerRoot_load(index.rest)
           [] index.v = 1 -> SignerPlaceholder_load(index.rest)
           [] OTHER -> SignerName_load(index.rest))

Signer_deserialize(b) ==
    Then(deserializeUleb128AsU32(b), LAMBDA index :
         CASE index.v = 0 -> SignerRoot_load(index.rest)
           [] index.v = 1 -> SignerPlaceholder_load(index.rest)
           [] index.v = 2 -> SignerName_load(index.rest)
           [] OTHER -> Fail("Unknown variant index for Signer"))

\* ---- TxV1 ----
RECURSIVE serializeEachBytes(_)
serializeEachBytes(s) ==
    IF s = <<>> THEN <<>> ELSE serializeBytes(s[1]) \o serializeEachBytes(Tail(s))

RECURSIVE deserializeEachBytes(_, _)
deserializeEachBytes(b, n) ==
    IF n = 0 THEN Ok(<<>>, b)
    ELSE Then(deserializeBytes(b), LAMBDA h :
         Then(deserializeEachBytes(h.rest, n - 1), LAMBDA t :
              Ok(<<h.v>> \o t.v, t.rest)))

TxV1_serialize(x) ==
    serializeVector(x.signers, "Signer")
    \o Call_serialize(x.call)
    \o serializeU32AsUleb128(Len(x.args))
    \o serializeEachBytes(x.args)
    \o serializeVector(x.type_args, "TypeTag")

\* the signers are read back with TransactionArgument as the element class
TxV1_deserialize(b) ==
    Then(deserializeVector(b, "TransactionArgument"), LAMBDA signers :
    Then(Call_deserialize(signers.rest), LAMBDA call :
    Then(deserializeUleb128AsU32(call.rest), LAMBDA length :
    Then(deserializeEachBytes(length.rest, length.v), LAMBDA list :
    Then(deserializeVector(list.rest, "TypeTag"), LAMBDA type_args :
         Ok([signers |-> signers.v, call |-> call.v, args |-> list.v,
             type_args |-> type_args.v],
            type_args.rest))))))

\* ---- Transaction ----
\* variant of TransactionV1.serialize: the variant index is not written
TransactionV1_serialize_bare(x) == TxV1_serialize(x.value)

TransactionV1_serialize(x) == serializeU32AsUleb128(0) \o TxV1_serialize(x.value)

TransactionV1_load(b) == Loaded("TransactionV1", TxV1_deserialize(b))

Transaction_serialize(x) == TransactionV1_serialize(x)

Transaction_deserialize(b) ==
    Then(deserializeUleb128AsU32(b), LAMBDA index :
         CASE index.v = 0 -> TransactionV1_load(index.rest)
           [] OTHER -> Fail("Unknown variant index for Transaction"))

\* ---- TypeArgumentABI, ArgumentABI (./abi) ----
TypeArgumentABI_serialize(x) == serializeStr(x.name)

TypeArgumentABI_deserialize(b) ==
    Then(deserializeStr(b), LAMBDA n : Ok([name |-> n.v], n.rest))

ArgumentABI_serialize(x) == serializeStr(x.name) \o TypeTag_serialize(x.type_tag)

ArgumentABI_deserialize(b) ==
    Then(deserializeStr(b), LAMBDA n :
    Then(TypeTag_deserialize(n.rest), LAMBDA t :
         Ok([name |-> n.v, type_tag |-> t.v], t.rest)))

\* x.serialize(serializer) / cls.deserialize(deserializer), by class
Serialize(cls, x) ==
    CASE cls = "TypeTag" -> TypeTag_serialize(x)
      [] cls = "Call" -> Call_serialize(x)
      [] cls = "TransactionArgument" -> TransactionArgument_serialize(x)
      [] cls = "Signer" -> Signer_serialize(x)
      [] cls = "Transaction" -> Transaction_serialize(x)
      [] cls = "TypeArgumentABI" -> TypeArgumentABI_serialize(x)
      [] cls = "ArgumentABI" -> ArgumentABI_serialize(x)

Deserialize(cls, b) ==
    CASE cls = "TypeTag" -> TypeTag_deserialize(b)
      [] cls = "Call" -> Call_deserialize(b)
      [] cls = "TransactionArgument" -> TransactionArgument_deserialize(b)
      [] cls = "Signer" -> Signer_deserialize(b)
      [] cls = "Transaction" -> Transaction_deserialize(b)
      [] cls = "TypeArgumentABI" -> TypeArgumentABI_deserialize(b)
      [] cls = "ArgumentABI" -> ArgumentABI_deserialize(b)

(***************************************************************************)
(* String, hex and address utilities (../hex_string, ./account_address).   *)
(***************************************************************************)
StartsWith(s, p) == Len(s) >= Len(p) /\ SubSeq(s, 1, Len(p)) = p

StrDrop(s, n) == SubSeq(s, n + 1, Len(s))

\* String.prototype.split("::")
RECURSIVE SplitAt(_, _, _)
SplitAt(s, sep, i) ==
    IF i + Len(sep) - 1 > Len(s) THEN <<s>>
    ELSE IF SubSeq(s, i, i + Len(sep) - 1) = sep
         THEN <<SubSeq(s, 1, i - 1)>> \o SplitAt(StrDrop(s, i + Len(sep) - 1), sep, 1)
    ELSE SplitAt(s, sep, i + 1)

split(s, sep) == SplitAt(s, sep, 1)

RECURSIVE StripZeros(_)
StripZeros(s) == IF StartsWith(s, "0") THEN StripZeros(StrDrop(s, 1)) ELSE s

HexLower == "0123456789abcdef"

HexUpper == "0123456789ABCDEF"

HexVal(c) ==
    Let(IndexIn(c, HexLower, 1),
        LAMBDA low : IF low > 0 THEN low - 1 ELSE IndexIn(c, HexUpper, 1) - 1)

RECURSIVE IsHex(_)
IsHex(s) == Len(s) = 0 \/ (HexVal(Head(s)) >= 0 /\ IsHex(Tail(s)))

RECURSIVE hexToBytes(_)
hexToBytes(s) ==
    IF Len(s) < 2 THEN <<>>
    ELSE <<16 * HexVal(CharAt(s, 1)) + HexVal(CharAt(s, 2))>> \o hexToBytes(StrDrop(s, 2))

RECURSIVE bytesToHex(_)
bytesToHex(b) ==
    IF b = <<>> THEN ""
    ELSE CharAt(HexLower, (b[1] \div 16) + 1) \o CharAt(HexLower, (b[1] % 16) + 1)
         \o bytesToHex(Tail(b))

\* new HexString(s): the 0x prefix is added when missing
HexString(s) == IF StartsWith(s, "0x") THEN s ELSE "0x" \o s

HexString_noPrefix(h) == StrDrop(h, 2)

HexString_fromUint8Array(b) == "0x" \o bytesToHex(b)

\* toShortString: the leading zeros after 0x are dropped
HexString_toShortString(h) == "0x" \o StripZeros(HexString_noPrefix(h))

AccountAddress_fromHex(addr) ==
    Let(HexString_noPrefix(HexString(addr)), LAMBDA h :
    Let(IF Len(h) % 2 # 0 THEN "0" \o h ELSE h, LAMBDA even :
        IF ~IsHex(even) THEN Fail("Invalid hex string")
        ELSE IF Len(even) \div 2 > AddressLength
             THEN Fail("Hex string is too long. Address's length is 32 bytes.")
        ELSE Ok(Zeros(AddressLength - (Len(even) \div 2)) \o hexToBytes(even), <<>>)))

(***************************************************************************)
(* Type-tag grammar (./builder_utils TypeTagParser): recursive descent.    *)
(* A parse step returns [ok, err, v, rest], rest being the unread string.  *)
(***************************************************************************)
ErrTypeTag == "MalformedTypeTag"

PFail == [ok |-> FALSE, err |-> ErrTypeTag, v |-> <<>>, rest |-> ""]

IdentChars == "0123456789abcdefghijklmnopqrstuvwxyzABCDEFGHIJKLMNOPQRSTUVWXYZ_"

RECURSIVE SkipSpaces(_)
SkipSpaces(s) == IF StartsWith(s, " ") THEN SkipSpaces(StrDrop(s, 1)) ELSE s

RECURSIVE TokenLen(_, _)
TokenLen(s, n) ==
    IF n < Len(s) /\ IndexIn(CharAt(s, n + 1), IdentChars, 1) > 0
    THEN TokenLen(s, n + 1) ELSE n

PrimitiveTag(w) ==
    CASE w = "bool" -> "TypeTagBool" [] w = "u8" -> "TypeTagU8"
      [] w = "u16" -> "TypeTagU16" [] w = "u32" -> "TypeTagU32"
      [] w = "u64" -> "TypeTagU64" [] w = "u128" -> "TypeTagU128"
      [] w = "u256" -> "TypeTagU256" [] w = "address" -> "TypeTagAddress"
      [] w = "signer" -> "TypeTagSigner" [] OTHER -> ""

RECURSIVE ParseType(_)
RECURSIVE ParseTypeList(_)

StructTagParsed(address, module_name, name, type_args, rest) ==
    Ok([k |-> "TypeTagStruct",
        value |-> [address |-> address, module_name |-> module_name, name |-> name,
                   type_args |-> type_args]], rest)

\* the struct reference ADDR::MODULE::STRUCT with an optional <T, ...>
ParseStruct(addrTok, s) ==
    Let(AccountAddress_fromHex(addrTok), LAMBDA a :
    Let(TokenLen(s, 0), LAMBDA mlen :
    Let(StrDrop(s, mlen), LAMBDA afterM :
    Let(TokenLen(StrDrop(afterM, 2), 0), LAMBDA nlen :
    Let(SkipSpaces(StrDrop(afterM, 2 + nlen)), LAMBDA afterN :
        IF ~a.ok \/ mlen = 0 \/ ~StartsWith(afterM, "::") \/ nlen = 0 THEN PFail
        ELSE IF StartsWith(afterN, "<")
             THEN Let(ParseTypeList(StrDrop(afterN, 1)), LAMBDA g :
                      IF g.ok /\ StartsWith(g.rest, ">")
                      THEN StructTagParsed(a.v, SubSeq(s, 1, mlen),
                                           SubSeq(afterM, 3, 2 + nlen), g.v,
                                           StrDrop(g.rest, 1))
                      ELSE PFail)
        ELSE StructTagParsed(a.v, SubSeq(s, 1, mlen), SubSeq(afterM, 3, 2 + nlen),
                             <<>>, afterN))))))

ParseType(str) ==
    Let(SkipSpaces(str), LAMBDA s :
    Let(TokenLen(s, 0), LAMBDA n :
    Let(SubSeq(s, 1, n), LAMBDA tok :
    Let(SkipSpaces(StrDrop(s, n)), LAMBDA after :
        IF n = 0 THEN PFail
        ELSE IF tok = "vector" /\ StartsWith(after, "<")
             THEN Let(ParseType(StrDrop(after, 1)), LAMBDA e :
                  Let(SkipSpaces(e.rest), LAMBDA close :
                      IF e.ok /\ StartsWith(close, ">")
                      THEN Ok([k |-> "TypeTagVector", value |-> e.v], StrDrop(close, 1))
                      ELSE PFail))
        ELSE IF StartsWith(after, "::") THEN ParseStruct(tok, StrDrop(after, 2))
        ELSE Let(PrimitiveTag(tok), LAMBDA prim :
                 IF prim # "" THEN Ok([k |-> prim], after) ELSE PFail)))))

\* a comma-separated list: only commas at this nesting depth separate
ParseTypeList(str) ==
    Let(ParseType(str), LAMBDA h :
    Let(SkipSpaces(h.rest), LAMBDA next :
        IF ~h.ok THEN PFail
        ELSE IF StartsWith(next, ",")
             THEN Let(ParseTypeList(StrDrop(next, 1)), LAMBDA t :
                      IF t.ok THEN Ok(<<h.v>> \o t.v, t.rest) ELSE PFail)
        ELSE Ok(<<h.v>>, next)))

\* new TypeTagParser(s).parseTypeTag(): the whole string is one type
parseTypeTag(s) ==
    Let(ParseType(s), LAMBDA r :
        IF r.ok /\ SkipSpaces(r.rest) = "" THEN Ok(r.v, "") ELSE PFail)

(***************************************************************************)
(* Argument coercion (./builder_utils serializeArg).  A raw argument is    *)
(* [t |-> "number", num], [t |-> "string", str], [t |-> "boolean", bool],  *)
(* [t |-> "bytes", bytes] or [t |-> "array", items].                       *)
(***************************************************************************)
ErrRange == "ArgumentRangeError"

ErrUnsupported == "UnsupportedArgumentType"

RECURSIVE MulAdd(_, _, _)
MulAdd(b, m, c) ==
    IF b = <<>> THEN (IF c = 0 THEN <<>> ELSE <<c % 256>> \o MulAdd(<<>>, m, c \div 256))
    ELSE <<(b[1] * m + c) % 256>> \o MulAdd(Tail(b), m, (b[1] * m + c) \div 256)

RECURSIVE DecimalToUint(_, _)
DecimalToUint(s, acc) ==
    IF Len(s) = 0 THEN Trim(acc)
    ELSE DecimalToUint(Tail(s), MulAdd(acc, 10, IndexIn(Head(s), "0123456789", 1) - 1))

RECURSIVE IsDecimal(_)
IsDecimal(s) ==
    Len(s) = 0 \/ (IndexIn(Head(s), "0123456789", 1) > 0 /\ IsDecimal(Tail(s)))

UintTagWidth(k) ==
    CASE k = "TypeTagU8" -> 1 [] k = "TypeTagU16" -> 2 [] k = "TypeTagU32" -> 4
      [] k = "TypeTagU64" -> 8 [] k = "TypeTagU128" -> 16 [] k = "TypeTagU256" -> 32
      [] OTHER -> 0

serializeUintArg(arg, w) ==
    IF arg.t = "number" \/ (arg.t = "string" /\ Len(arg.str) > 0 /\ IsDecimal(arg.str))
    THEN Let(IF arg.t = "number" THEN arg.num ELSE DecimalToUint(arg.str, <<>>),
             LAMBDA n : IF Len(n) > w THEN Fail(ErrRange) ELSE Ok(serializeUint(n, w), <<>>))
    ELSE Fail(ErrUnsupported)

serializeAddressArg(arg) ==
    IF arg.t = "string" THEN AccountAddress_fromHex(arg.str)
    ELSE IF arg.t = "bytes" /\ Len(arg.bytes) = AddressLength THEN Ok(arg.bytes, <<>>)
    ELSE Fail(ErrUnsupported)

RECURSIVE serializeArg(_, _)
RECURSIVE serializeArgItems(_, _)

serializeArgItems(items, tag) ==
    IF items = <<>> THEN Ok(<<>>, <<>>)
    ELSE Then(serializeArg(items[1], tag), LAMBDA h :
         Then(serializeArgItems(Tail(items), tag), LAMBDA t : Ok(h.v \o t.v, <<>>)))

serializeVectorArg(arg, elem) ==
    IF elem.k = "TypeTagU8" /\ arg.t = "bytes" THEN Ok(serializeBytes(arg.bytes), <<>>)
    ELSE IF elem.k = "TypeTagU8" /\ arg.t = "string"
         THEN Let(HexString_noPrefix(HexString(arg.str)), LAMBDA h :
                  IF IsHex(h) /\ Len(h) % 2 = 0 THEN Ok(serializeBytes(hexToBytes(h)), <<>>)
                  ELSE Fail(ErrUnsupported))
    ELSE IF arg.t = "array"
         THEN Then(serializeArgItems(arg.items, elem), LAMBDA r :
                   Ok(serializeU32AsUleb128(Len(arg.items)) \o r.v, <<>>))
    ELSE Fail(ErrUnsupported)

serializeArg(arg, tag) ==
    Let(UintTagWidth(tag.k), LAMBDA w :
        IF w > 0 THEN serializeUintArg(arg, w)
        ELSE IF tag.k = "TypeTagBool"
             THEN (IF arg.t = "boolean" THEN Ok(serializeBool(arg.bool), <<>>)
                   ELSE Fail(ErrUnsupported))
        ELSE IF tag.k = "TypeTagAddress" THEN serializeAddressArg(arg)
        ELSE IF tag.k = "TypeTagVector" THEN serializeVectorArg(arg, tag.value)
        ELSE IF tag.k = "TypeTagStruct" /\ arg.t = "bytes" THEN Ok(arg.bytes, <<>>)
        ELSE Fail(ErrUnsupported))

(***************************************************************************)
(* ABI documents (./abi): ScriptABI = TransactionScriptABI or               *)
(* EntryFunctionABI.                                                       *)
(***************************************************************************)
ModuleId_serialize(x) == AccountAddress_serialize(x.address) \o Identifier_serialize(x.name)

ModuleId_deserialize(b) ==
    Then(AccountAddress_deserialize(b), LAMBDA a :
    Then(Identifier_deserialize(a.rest), LAMBDA n :
         Ok([address |-> a.v, name |-> n.v], n.rest)))

ModuleId_fromStr(moduleId) ==
    Let(split(moduleId, "::"), LAMBDA parts :
        IF Len(parts) # 2 THEN Fail("Invalid module id.")
        ELSE Then(AccountAddress_fromHex(HexString(parts[1])), LAMBDA a :
                  Ok([address |-> a.v, name |-> parts[2]], <<>>)))

ScriptABI_serialize(x) ==
    IF x.k = "TransactionScriptABI"
    THEN serializeU32AsUleb128(0) \o serializeStr(x.name) \o serializeStr(x.doc)
         \o serializeBytes(x.code)
         \o serializeVector(x.ty_args, "TypeArgumentABI")
         \o serializeVector(x.args, "ArgumentABI")
    ELSE serializeU32AsUleb128(1) \o serializeStr(x.name)
         \o ModuleId_serialize(x.module_name) \o serializeStr(x.doc)
         \o serializeVector(x.ty_args, "TypeArgumentABI")
         \o serializeVector(x.args, "ArgumentABI")

TransactionScriptABI_load(b) ==
    Then(deserializeStr(b), LAMBDA name :
    Then(deserializeStr(name.rest), LAMBDA doc :
    Then(deserializeBytes(doc.rest), LAMBDA code :
    Then(deserializeVector(code.rest, "TypeArgumentABI"), LAMBDA ty :
    Then(deserializeVector(ty.rest, "ArgumentABI"), LAMBDA args :
         Ok([k |-> "TransactionScriptABI", name |-> name.v, doc |-> doc.v,
             code |-> code.v, ty_args |-> ty.v, args |-> args.v],
            args.rest))))))

EntryFunctionABI_load(b) ==
    Then(deserializeStr(b), LAMBDA name :
    Then(ModuleId_deserialize(name.rest), LAMBDA module :
    Then(deserializeStr(module.rest), LAMBDA doc :
    Then(deserializeVector(doc.rest, "TypeArgumentABI"), LAMBDA ty :
    Then(deserializeVector(ty.rest, "ArgumentABI"), LAMBDA args :
         Ok([k |-> "EntryFunctionABI", name |-> name.v, module_name |-> module.v,
             doc |-> doc.v, ty_args |-> ty.v, args |-> args.v],
            args.rest))))))

ScriptABI_deserialize(b) ==
    Then(deserializeUleb128AsU32(b), LAMBDA index :
         CASE index.v = 0 -> TransactionScriptABI_load(index.rest)
           [] index.v = 1 -> EntryFunctionABI_load(index.rest)
           [] OTHER -> Fail("Unknown variant index for TransactionPayload"))

(***************************************************************************)
(* TransactionBuilderABI (src/unnamed/part_000, and its copy               *)
(* src/src/transaction_builder/builders.ts).  An invocation yields         *)
(* [err, detail, tx, coerced]: the message of the Error thrown ("" when    *)
(* none) and the string interpolated into it, the value returned (NoTx     *)
(* when it threw), and the number of serializeArg calls it made.           *)
(***************************************************************************)
NoTx == [k |-> "none"]

Thrown(e, d, n) == [err |-> e, detail |-> d, tx |-> NoTx, coerced |-> n]

Returned(tx, n) == [err |-> "", detail |-> "", tx |-> tx, coerced |-> n]

ErrConflict == "Found conflicting ABI interfaces"

ErrArity == "Wrong number of args provided."

ErrNoFunction == "Cannot find function: "

ErrNotExist == " doesn't exist."

ErrNotQualified == "'func' needs to be a fully qualified function name"

\* a Map<string, V> is a function from its keys
EmptyMap == <<>>

MapHas(m, key) == key \in DOMAIN m

MapSet(m, key, v) == [x \in DOMAIN m \cup {key} |-> IF x = key THEN v ELSE m[x]]

\* the key the constructor files a ScriptABI under
abiKey(scriptABI) ==
    IF scriptABI.k = "EntryFunctionABI"
    THEN HexString_toShortString(HexString_fromUint8Array(scriptABI.module_name.address))
         \o "::" \o scriptABI.module_name.name \o "::" \o scriptABI.name
    ELSE scriptABI.name

\* variant of the constructor: abiMap.set without the abiMap.has test
RECURSIVE indexABIs_overwriting(_, _)
indexABIs_overwriting(docs, m) ==
    IF docs = <<>> THEN [err |-> "", abiMap |-> m]
    ELSE Let(ScriptABI_deserialize(docs[1]), LAMBDA scriptABI :
             IF ~scriptABI.ok THEN [err |-> scriptABI.err, abiMap |-> EmptyMap]
             ELSE indexABIs_overwriting(Tail(docs),
                                        MapSet(m, abiKey(scriptABI.v), scriptABI.v)))

\* abis.forEach of the constructor, from the first document on
RECURSIVE indexABIs(_, _)
indexABIs(docs, m) ==
    IF docs = <<>> THEN [err |-> "", abiMap |-> m]
    ELSE Let(ScriptABI_deserialize(docs[1]), LAMBDA scriptABI :
             IF ~scriptABI.ok THEN [err |-> scriptABI.err, abiMap |-> EmptyMap]
             ELSE Let(abiKey(scriptABI.v), LAMBDA k :
                      IF MapHas(m, k) THEN [err |-> ErrConflict, abiMap |-> EmptyMap]
                      ELSE indexABIs(Tail(docs), MapSet(m, k, scriptABI.v))))

TransactionBuilderABI_new(docs) == indexABIs(docs, EmptyMap)

\* variant of the map in toBCSArgs: each encoding is put in front of the
\* ones before it
RECURSIVE mapSerializeArg_unshift(_, _, _, _)
mapSerializeArg_unshift(abiArgs, args, i, acc) ==
    IF i > Len(args) THEN [err |-> "", bytes |-> acc, coerced |-> Len(args)]
    ELSE Let(serializeArg(args[i], abiArgs[i].type_tag), LAMBDA r :
             IF ~r.ok THEN [err |-> r.err, bytes |-> <<>>, coerced |-> i]
             ELSE mapSerializeArg_unshift(abiArgs, args, i + 1, <<r.v>> \o acc))

\* args.map((arg, i) => serializeArg(arg, abiArgs[i].type_tag)), from index i on
RECURSIVE mapSerializeArg(_, _, _, _)
mapSerializeArg(abiArgs, args, i, acc) ==
    IF i > Len(args) THEN [err |-> "", bytes |-> acc, coerced |-> Len(args)]
    ELSE Let(serializeArg(args[i], abiArgs[i].type_tag), LAMBDA r :
             IF ~r.ok THEN [err |-> r.err, bytes |-> <<>>, coerced |-> i]
             ELSE mapSerializeArg(abiArgs, args, i + 1, Append(acc, r.v)))

\* variant of toBCSArgs: the length test comes after the map
toBCSArgs_checkedLate(abiArgs, args) ==
    LET n == IF Len(abiArgs) < Len(args) THEN Len(abiArgs) ELSE Len(args)
        mapped == mapSerializeArg(abiArgs, Take(args, n), 1, <<>>)
    IN  IF mapped.err # "" THEN mapped
        ELSE IF Len(abiArgs) # Len(args)
             THEN [err |-> ErrArity, bytes |-> <<>>, coerced |-> mapped.coerced]
        ELSE mapped

toBCSArgs(abiArgs, args) ==
    IF Len(abiArgs) # Len(args) THEN [err |-> ErrArity, bytes |-> <<>>, coerced |-> 0]
    ELSE mapSerializeArg(abiArgs, args, 1, <<>>)

\* ty_tags.map((ty_arg) => new TypeTagParser(ty_arg).parseTypeTag())
RECURSIVE parseTypeTags(_)
parseTypeTags(ty_tags) ==
    IF ty_tags = <<>> THEN Ok(<<>>, "")
    ELSE Then(parseTypeTag(ty_tags[1]), LAMBDA h :
         Then(parseTypeTags(Tail(ty_tags)), LAMBDA t : Ok(<<h.v>> \o t.v, "")))

\* the payload of buildCall: new CallEntryFunction(new EntryFunction(...)) or
\* new CallScript(new Script(code))
NewCall(scriptABI, func) ==
    IF scriptABI.k = "EntryFunctionABI"
    THEN Then(AccountAddress_fromHex(split(func, "::")[1]), LAMBDA addr :
              Ok([k |-> "CallEntryFunction",
                  value |-> [module_address |-> addr.v,
                             module_name |-> scriptABI.module_name.name,
                             function_name |-> scriptABI.name]], <<>>))
    ELSE Ok([k |-> "CallScript", value |-> [code |-> scriptABI.code]], <<>>)

\* the return statement of buildCall in part_000
NewTxV1(payload, bcsargs, typeTags) ==
    [signers |-> <<[k |-> "SignerPlaceholder"]>>, call |-> payload, args |-> bcsargs,
     type_args |-> typeTags]

\* the return statement of buildCall in builders.ts
NewTxV1_builders(payload, bcsargs, typeTags) ==
    [signers |-> <<>>, call |-> payload, args |-> bcsargs, type_args |-> typeTags]

\* variant of buildCall: the number of type arguments is compared with the
\* declared type parameters
buildCallOf_countingTypeArgs(im, scriptABI, func, typeTags, args) ==
    IF scriptABI.k \notin {"EntryFunctionABI", "TransactionScriptABI"}
    THEN Thrown("Unknown ABI format.", "", 0)
    ELSE IF Len(typeTags) # Len(scriptABI.ty_args)
    THEN Thrown("Wrong number of type args provided.", "", 0)
    ELSE Let(toBCSArgs(scriptABI.args, args), LAMBDA bcsargs :
             IF bcsargs.err # "" THEN Thrown(bcsargs.err, "", bcsargs.coerced)
             ELSE Let(NewCall(scriptABI, func), LAMBDA payload :
                      IF ~payload.ok THEN Thrown(payload.err, "", bcsargs.coerced)
                      ELSE Returned(IF im = "part_000"
                                    THEN NewTxV1(payload.v, bcsargs.bytes, typeTags)
                                    ELSE NewTxV1_builders(payload.v, bcsargs.bytes, typeTags),
                                    bcsargs.coerced)))

\* buildCall from `const scriptABI = this.abiMap.get(func)` on
buildCallOf(im, scriptABI, func, typeTags, args) ==
    IF scriptABI.k \notin {"EntryFunctionABI", "TransactionScriptABI"}
    THEN Thrown("Unknown ABI format.", "", 0)
    ELSE Let(toBCSArgs(scriptABI.args, args), LAMBDA bcsargs :
             IF bcsargs.err # "" THEN Thrown(bcsargs.err, "", bcsargs.coerced)
             ELSE Let(NewCall(scriptABI, func), LAMBDA payload :
                      IF ~payload.ok THEN Thrown(payload.err, "", bcsargs.coerced)
                      ELSE Returned(IF im = "part_000"
                                    THEN NewTxV1(payload.v, bcsargs.bytes, typeTags)
                                    ELSE NewTxV1_builders(payload.v, bcsargs.bytes, typeTags),
                                    bcsargs.coerced)))

\* variant of buildCall: no abiMap.has test, so that abiMap.get yields undefined
\* and the instanceof chain falls through
buildCall_unguarded(im, m, func, ty_tags, args) ==
    Let(parseTypeTags(ty_tags), LAMBDA typeTags :
        IF ~typeTags.ok THEN Thrown(typeTags.err, "", 0)
        ELSE buildCallOf(im, IF MapHas(m, func) THEN m[func] ELSE [k |-> "undefined"],
                         func, typeTags.v, args))

\* variant of buildCall: the function is looked up before the type
\* arguments are parsed
buildCall_lookupFirst(im, m, func, ty_tags, args) ==
    IF ~MapHas(m, func) THEN Thrown(ErrNoFunction, func, 0)
    ELSE Let(parseTypeTags(ty_tags), LAMBDA typeTags :
             IF ~typeTags.ok THEN Thrown(typeTags.err, "", 0)
             ELSE buildCallOf(im, m[func], func, typeTags.v, args))

buildCall(im, m, func, ty_tags, args) ==
    Let(parseTypeTags(ty_tags), LAMBDA typeTags :
        IF ~typeTags.ok THEN Thrown(typeTags.err, "", 0)
        ELSE IF ~MapHas(m, func) THEN Thrown(ErrNoFunction, func, 0)
        ELSE buildCallOf(im, m[func], func, typeTags.v, args))

\* variant of build: the Transaction is wrapped around whatever buildCall
\* left behind, its failure included
build_wrapping(im, m, func, ty_tags, args) ==
    LET payload == buildCall(im, m, func, ty_tags, args)
    IN  [payload EXCEPT !.tx = [k |-> "TransactionV1", value |-> payload.tx]]

\* variant of build: a failure of buildCall is caught and reported as an
\* invalid ABI
build_swallowing(im, m, func, ty_tags, args) ==
    LET payload == buildCall(im, m, func, ty_tags, args)
    IN  IF payload.err = ""
        THEN Returned([k |-> "TransactionV1", value |-> payload.tx], payload.coerced)
        ELSE Thrown("Invalid ABI.", "", payload.coerced)

build(im, m, func, ty_tags, args) ==
    Let(buildCall(im, m, func, ty_tags, args), LAMBDA payload :
        IF payload.err # "" THEN payload
        ELSE IF payload.tx # NoTx
             THEN Returned([k |-> "TransactionV1", value |-> payload.tx], payload.coerced)
        ELSE Thrown("Invalid ABI.", "", payload.coerced))

(***************************************************************************)
(* TransactionBuilderRemoteABI.  A module document is the parsed JSON      *)
(* [abi |-> [address, name, exposed_functions]], a function of it          *)
(* [name, is_entry, generic_type_params, params].                          *)
(***************************************************************************)
Fn(name, entry, generics, params) ==
    [name |-> name, is_entry |-> entry, generic_type_params |-> generics, params |-> params]

\* the document built into fetchABI() of builders.ts, also used by the test
ScriptBookModule ==
    [abi |->
      [address |-> "0xd43593c715fdd31c61141abd04a99fd6822c8558854ccde39a5684e7a56da27d",
       name |-> "ScriptBook",
       exposed_functions |->
         <<Fn("store_sum_func", TRUE, <<>>, <<"signer", "u64", "u64">>),
           Fn("store_sum_funct", TRUE, <<[constraints |-> <<>>]>>, <<"signer", "u64", "u64">>),
           Fn("sum_func", TRUE, <<>>, <<"signer", "u64", "u64">>),
           Fn("sum_funct", TRUE, <<[constraints |-> <<>>]>>, <<"signer", "u64", "u64">>),
           Fn("test", TRUE, <<>>, <<>>),
           Fn("test2", TRUE, <<>>, <<"u64", "u64">>)>>]]

\* variant of fetchABI: every exposed function is filed, entry point or not
RECURSIVE setEntries_all(_, _, _)
setEntries_all(abi, fns, m) ==
    IF fns = <<>> THEN m
    ELSE setEntries_all(abi, Tail(fns),
                        MapSet(m, abi.address \o "::" \o abi.name \o "::" \o fns[1].name,
                               fns[1]))

\* variant of fetchABI: a name that is already filed keeps its first function
RECURSIVE setEntries_keepFirst(_, _, _)
setEntries_keepFirst(abi, fns, m) ==
    IF fns = <<>> THEN m
    ELSE setEntries_keepFirst(abi, Tail(fns),
             IF fns[1].is_entry
                /\ ~MapHas(m, abi.address \o "::" \o abi.name \o "::" \o fns[1].name)
             THEN MapSet(m, abi.address \o "::" \o abi.name \o "::" \o fns[1].name, fns[1])
             ELSE m)

\* exposed_functions.filter(is_entry).map(fullName), then abiMap.set for each
RECURSIVE setEntries(_, _, _)
setEntries(abi, fns, m) ==
    IF fns = <<>> THEN m
    ELSE setEntries(abi, Tail(fns),
                    IF fns[1].is_entry
                    THEN MapSet(m, abi.address \o "::" \o abi.name \o "::" \o fns[1].name,
                                fns[1])
                    ELSE m)

fetchABI(module) == setEntries(module.abi, module.abi.exposed_functions, EmptyMap)

\* const normlize = (s) => s.replace(/^0[xX]0*/g, "0x")
normlize(s) ==
    IF StartsWith(s, "0x") \/ StartsWith(s, "0X") THEN "0x" \o StripZeros(StrDrop(s, 2))
    ELSE s

\* variant of the filter: the signer parameters are kept
filterSigners_kept(params) == params

\* params.filter((param) => param !== "signer" && param !== "&signer")
RECURSIVE filterSigners(_)
filterSigners(params) ==
    IF params = <<>> THEN <<>>
    ELSE (IF params[1] # "signer" /\ params[1] # "&signer" THEN <<params[1]>> ELSE <<>>)
         \o filterSigners(Tail(params))

Decimal(i) == IF i < 10 THEN CharAt("0123456789", i + 1)
              ELSE CharAt("0123456789", (i \div 10) + 1) \o CharAt("0123456789", (i % 10) + 1)

\* originalArgs.map((arg, i) => new ArgumentABI(`var${i}`, parseTypeTag(arg)))
RECURSIVE argumentABIs(_, _)
argumentABIs(originalArgs, i) ==
    IF i > Len(originalArgs) THEN Ok(<<>>, "")
    ELSE Then(parseTypeTag(originalArgs[i]), LAMBDA h :
         Then(argumentABIs(originalArgs, i + 1), LAMBDA t :
              Ok(<<[name |-> "var" \o Decimal(i - 1), type_tag |-> h.v]>> \o t.v, "")))

\* new EntryFunctionABI(funcAbi.name, moduleId, "", type arguments, arguments)
NewEntryFunctionABI(funcAbi, moduleId, typeArgABIs) ==
    [k |-> "EntryFunctionABI", name |-> funcAbi.name, module_name |-> moduleId,
     doc |-> "",
     ty_args |-> [i \in 1..Len(funcAbi.generic_type_params) |-> [name |-> Decimal(i - 1)]],
     args |-> typeArgABIs]

\* the remote build from `const funcAbi = abiMap.get(func)` on
remoteBuildOf(im, funcAbi, func, funcNameParts, ty_tags, args) ==
    Let(argumentABIs(filterSigners(funcAbi.params), 1), LAMBDA typeArgABIs :
        IF ~typeArgABIs.ok THEN Thrown(typeArgABIs.err, "", 0)
        ELSE Let(ModuleId_fromStr(funcNameParts[1] \o "::" \o funcNameParts[2]),
                 LAMBDA moduleId :
             IF ~moduleId.ok THEN Thrown(moduleId.err, "", 0)
             ELSE Let(TransactionBuilderABI_new(
                          <<ScriptABI_serialize(
                                NewEntryFunctionABI(funcAbi, moduleId.v, typeArgABIs.v))>>),
                      LAMBDA builderABI :
                  IF builderABI.err # "" THEN Thrown(builderABI.err, "", 0)
                  ELSE build(im, builderABI.abiMap, func, ty_tags, args))))

remoteBuild(im, module, f, ty_tags, args) ==
    Let(normlize(f), LAMBDA func :
    Let(split(func, "::"), LAMBDA funcNameParts :
        IF Len(funcNameParts) # 3 THEN Thrown(ErrNotQualified, "", 0)
        ELSE Let(fetchABI(IF im = "part_000" THEN module ELSE ScriptBookModule),
                 LAMBDA remoteMap :
             IF ~MapHas(remoteMap, func) THEN Thrown(ErrNotExist, func, 0)
             ELSE remoteBuildOf(im, remoteMap[func], func, funcNameParts, ty_tags, args))))

(***************************************************************************)
(* Codec runs: a value of one union is serialized into a buffer, possibly  *)
(* followed by other bytes, and the buffer is deserialized; or a buffer    *)
(* that starts with an arbitrary variant index, or a strict prefix of the  *)
(* bytes of a Transaction, is deserialized.                                *)
(***************************************************************************)
SeqsUpTo(S, n) == UNION {[1..m -> S] : m \in 0..n}

Addr(hi, lo) == <<hi>> \o Zeros(AddressLength - 2) \o <<lo>>

Addresses == {Addr(0, 1), Addr(212, 125)}

ByteStrings == {<<>>, <<0>>, <<1, 2>>}

Strings == {"", "a", "coin"}

UintValues(w) == {<<>>, <<255>>, Zeros(w - 1) \o <<128>>}

UintKinds ==
    {<<"TransactionArgumentU8", 1>>, <<"TransactionArgumentU16", 2>>,
     <<"TransactionArgumentU32", 4>>, <<"TransactionArgumentU64", 8>>,
     <<"TransactionArgumentU128", 16>>, <<"TransactionArgumentU256", 32>>}

TransactionArgumentValues ==
    UNION {{[k |-> kw[1], value |-> v] : v \in UintValues(kw[2])} : kw \in UintKinds}
    \cup {[k |-> "TransactionArgumentAddress", value |-> a] : a \in Addresses}
    \cup {[k |-> "TransactionArgumentU8Vector", value |-> c] : c \in ByteStrings}
    \cup {[k |-> "TransactionArgumentBool", value |-> c] : c \in BOOLEAN}

SignerValues ==
    {[k |-> "SignerRoot"], [k |-> "SignerPlaceholder"]}
    \cup {[k |-> "SignerName", value |-> n] : n \in Strings}

CallValues ==
    {[k |-> "CallScript", value |-> [code |-> c]] : c \in ByteStrings}
    \cup {[k |-> "CallEntryFunction",
           value |-> [module_address |-> a, module_name |-> m, function_name |-> f]] :
          a \in Addresses, m \in Strings \ {""}, f \in {"a", "transfer"}}

TxSigners == {[k |-> "SignerRoot"], [k |-> "SignerPlaceholder"],
              [k |-> "SignerName", value |-> "a"]}

TxCalls ==
    {[k |-> "CallScript", value |-> [code |-> <<1, 2>>]],
     [k |-> "CallEntryFunction",
      value |-> [module_address |-> Addr(0, 1), module_name |-> "coin",
                 function_name |-> "transfer"]]}

TxArgs == {<<>>, <<<<>>, <<1, 2>>>>}

TxTypeArgs ==
    {<<>>,
     <<[k |-> "TypeTagU64"],
       [k |-> "TypeTagVector", value |-> [k |-> "TypeTagVector", value |-> [k |-> "TypeTagU8"]]]>>,
     <<[k |-> "TypeTagStruct",
        value |-> [address |-> Addr(0, 1), module_name |-> "aptos_coin", name |-> "AptosCoin",
                   type_args |-> <<[k |-> "TypeTagBool"]>>]]>>}

TransactionValues ==
    {[k |-> "TransactionV1",
      value |-> [signers |-> s, call |-> c, args |-> a, type_args |-> t]] :
     s \in SeqsUpTo(TxSigners, MaxSeq), c \in TxCalls, a \in TxArgs, t \in TxTypeArgs}

\* the transactions whose serialization is cut short
TruncatedValues == {x \in TransactionValues : Len(x.value.signers) <= 1}

Unions == {"Call", "Signer", "TransactionArgument", "Transaction"}

ValuesOf(u) ==
    CASE u = "Call" -> CallValues
      [] u = "Signer" -> SignerValues
      [] u = "TransactionArgument" -> TransactionArgumentValues
      [] u = "Transaction" -> TransactionValues

VariantIndices(u) ==
    CASE u = "Call" -> {0, 1}
      [] u = "Signer" -> {0, 1, 2}
      [] u = "TransactionArgument" -> 0..8
      [] u = "Transaction" -> {0}

RawIndices == (0..MaxIndex) \cup {128, 129, 256}

CodecInputs ==
    UNION {{[mode |-> "value", union |-> u, x |-> x, tail |-> t] :
            x \in ValuesOf(u), t \in {<<>>, <<7>>}} : u \in Unions}
    \cup {[mode |-> "raw", union |-> u, index |-> i, x |-> p, tail |-> <<>>] :
          u \in Unions, i \in RawIndices, p \in {<<>>, Zeros(AddressLength + 2)}}
    \cup UNION {{[mode |-> "prefix", union |-> "Transaction", x |-> p[1], len |-> p[2],
                  cut |-> n, tail |-> <<>>] : n \in 0..(p[2] - 1)} :
                p \in {<<x, Len(Serialize("Transaction", x))>> : x \in TruncatedValues}}

NoCall == [op |-> "none"]

BuilderIdle ==
    /\ phase = "Unindexed"
    /\ impl = "part_000"
    /\ abis = <<>>
    /\ abiMap = EmptyMap
    /\ last = NoCall

CodecInit ==
    /\ cpc = "input"
    /\ cin \in CodecInputs
    /\ wire = <<>>
    /\ cout = Fail("")
    /\ BuilderIdle

\* bcsToBytes(x), then whatever follows x in the buffer
SerializeValue ==
    /\ cpc = "input"
    /\ cin.mode = "value"
    /\ wire' = Serialize(cin.union, cin.x) \o cin.tail
    /\ cpc' = "serialized"
    /\ UNCHANGED <<cin, cout>>
    /\ UNCHANGED builderVars

\* a buffer written by some other encoder: a variant index, then bytes
ReceiveRaw ==
    /\ cpc = "input"
    /\ cin.mode = "raw"
    /\ wire' = serializeU32AsUleb128(cin.index) \o cin.x
    /\ cpc' = "serialized"
    /\ UNCHANGED <<cin, cout>>
    /\ UNCHANGED builderVars

\* a buffer that ends early: the first cut bytes of bcsToBytes(x)
Truncate ==
    /\ cpc = "input"
    /\ cin.mode = "prefix"
    /\ wire' = Take(Serialize(cin.union, cin.x), cin.cut)
    /\ cpc' = "serialized"
    /\ UNCHANGED <<cin, cout>>
    /\ UNCHANGED builderVars

\* cls.deserialize(new Deserializer(wire))
DeserializeWire ==
    /\ cpc = "serialized"
    /\ cout' = Deserialize(cin.union, wire)
    /\ cpc' = "deserialized"
    /\ UNCHANGED <<cin, wire>>
    /\ UNCHANGED builderVars

CodecNext == SerializeValue \/ ReceiveRaw \/ Truncate \/ DeserializeWire

CodecSpec == CodecInit /\ [][CodecNext]_vars

(***************************************************************************)
(* Claims about the codec.                                                 *)
(***************************************************************************)
RoundTripped(u) == cpc = "deserialized" /\ cin.mode = "value" /\ cin.union = u

\* C1: Transaction.deserialize applied to the bytes written by serialize
\* returns a value structurally equal to the original (same signers in the
\* same order and of the same Signer variants, same call, args, type_args).
C1_TransactionRoundTrip ==
    RoundTripped("Transaction") => (cout.ok /\ cout.v = cin.x)

\* C2: for every value x of Call, Signer and TransactionArgument,
\* deserialize(serialize(x)) equals x and consumes exactly the bytes that
\* serialize wrote (what follows them in the buffer is left unread).
C2_UnionRoundTrip ==
    \A u \in {"Call", "Signer", "TransactionArgument"} :
        RoundTripped(u) => (cout.ok /\ cout.v = cin.x /\ cout.rest = cin.tail)

C2_Witness ==
    /\ RoundTripped("TransactionArgument")
    /\ cin.x.k = "TransactionArgumentU256"
    /\ cin.x.value # <<>>
    /\ cin.tail # <<>>
    /\ cout.ok

\* C3: every tagged-union deserialize is a strict allow-list: a variant index
\* outside the union's closed set always fails with the unknown-variant error
\* of that union, and never yields a value.
C3_StrictAllowList ==
    (cpc = "deserialized" /\ cin.mode = "raw" /\ cin.index \notin VariantIndices(cin.union))
        => (~cout.ok /\ cout.err = "Unknown variant index for " \o cin.union)

C3_Witness ==
    /\ cpc = "deserialized"
    /\ cin.mode = "raw"
    /\ cin.union = "Signer"
    /\ cin.index = 3
    /\ ~cout.ok

\* the variant index the data model assigns to each variant class
DataModelIndex(k) ==
    CASE k = "TransactionArgumentU8" -> 0 [] k = "TransactionArgumentU64" -> 1
      [] k = "TransactionArgumentU128" -> 2 [] k = "TransactionArgumentAddress" -> 3
      [] k = "TransactionArgumentU8Vector" -> 4 [] k = "TransactionArgumentBool" -> 5
      [] k = "TransactionArgumentU16" -> 6 [] k = "TransactionArgumentU32" -> 7
      [] k = "TransactionArgumentU256" -> 8
      [] k = "CallScript" -> 0 [] k = "CallEntryFunction" -> 1
      [] k = "SignerRoot" -> 0 [] k = "SignerPlaceholder" -> 1 [] k = "SignerName" -> 2
      [] k = "TransactionV1" -> 0

VariantsOf(u) ==
    CASE u = "Call" -> {"CallScript", "CallEntryFunction"}
      [] u = "Signer" -> {"SignerRoot", "SignerPlaceholder", "SignerName"}
      [] u = "TransactionArgument" ->
             {"TransactionArgumentU8", "TransactionArgumentU64", "TransactionArgumentU128",
              "TransactionArgumentAddress", "TransactionArgumentU8Vector",
              "TransactionArgumentBool", "TransactionArgumentU16",
              "TransactionArgumentU32", "TransactionArgumentU256"}
      [] u = "Transaction" -> {"TransactionV1"}

\* C11: each variant's serialize writes the variant index the data model
\* assigns to it, deserialize dispatches that same index to that same
\* variant, and no two variants of one union share an index.
C11_VariantIndices ==
    /\ (cpc \in {"serialized", "deserialized"} /\ cin.mode = "value")
          => (/\ cin.x.k \in VariantsOf(cin.union)
              /\ Take(wire, 1) = <<DataModelIndex(cin.x.k)>>)
    /\ (cpc = "deserialized" /\ cin.mode = "raw" /\ cin.x # <<>>
           /\ cin.index \in VariantIndices(cin.union))
          => (/\ cout.ok
              /\ cout.v.k \in VariantsOf(cin.union)
              /\ DataModelIndex(cout.v.k) = cin.index)
    /\ \A u \in Unions : \A k1, k2 \in VariantsOf(u) :
          DataModelIndex(k1) = DataModelIndex(k2) => k1 = k2

C11_Witness ==
    /\ cpc = "deserialized"
    /\ cin.mode = "raw"
    /\ cin.union = "TransactionArgument"
    /\ cin.index = 6
    /\ cout.ok
    /\ cout.v.k = "TransactionArgumentU16"

\* C12: serializing an EntryFunction Call writes exactly the variant index 1,
\* the 32 address bytes of module_address, the length-prefixed module name and
\* the length-prefixed function name, in this order and nothing else.
C12_EntryFunctionLayout ==
    (cpc \in {"serialized", "deserialized"} /\ cin.mode = "value" /\ cin.union = "Call"
       /\ cin.x.k = "CallEntryFunction")
      => (/\ Len(cin.x.value.module_address) = 32
          /\ wire = <<1>> \o cin.x.value.module_address
                     \o <<Len(cin.x.value.module_name)>> \o utf8Encode(cin.x.value.module_name)
                     \o <<Len(cin.x.value.function_name)>>
                     \o utf8Encode(cin.x.value.function_name)
                     \o cin.tail
          /\ (cin.x.value = [module_address |-> Zeros(31) \o <<1>>, module_name |-> "coin",
                             function_name |-> "transfer"] /\ cin.tail = <<>>)
                => wire = <<1>> \o Zeros(31) \o <<1>> \o <<4, 99, 111, 105, 110>>
                          \o <<8, 116, 114, 97, 110, 115, 102, 101, 114>>)

C12_Witness ==
    /\ cpc = "serialized"
    /\ cin.mode = "value"
    /\ cin.union = "Call"
    /\ cin.x = [k |-> "CallEntryFunction",
                value |-> [module_address |-> Zeros(31) \o <<1>>, module_name |-> "coin",
                           function_name |-> "transfer"]]
    /\ cin.tail = <<>>
    /\ Len(wire) = 47

\* C19: truncated input never decodes: for every Transaction x and every
\* strict prefix p of serialize(x), Transaction.deserialize(p) fails with the
\* end-of-input error instead of returning a value.
C19_TruncatedNeverDecodes ==
    (cpc = "deserialized" /\ cin.mode = "prefix")
        => (~cout.ok /\ cout.err = ErrEnd)

\* C19 for the transactions that carry no signer
C19_TruncatedNoSigner ==
    (cpc = "deserialized" /\ cin.mode = "prefix" /\ cin.x.value.signers = <<>>)
        => (~cout.ok /\ cout.err = ErrEnd)

(***************************************************************************)
(* Builder runs: a TransactionBuilderABI is constructed from ABI           *)
(* documents and then asked to buildCall and build, in any order; the      *)
(* static remote-ABI build is called on a module document; a Transaction   *)
(* that was built may be serialized.                                       *)
(***************************************************************************)
U64Tag == [k |-> "TypeTagU64"]

TransferABI ==
    [k |-> "EntryFunctionABI", name |-> "transfer",
     module_name |-> [address |-> Addr(0, 1), name |-> "coin"], doc |-> "",
     ty_args |-> <<[name |-> "CoinType"]>>,
     args |-> <<[name |-> "to", type_tag |-> [k |-> "TypeTagAddress"]],
                [name |-> "amount", type_tag |-> U64Tag]>>]

\* a second version of the same function
TransferABI2 ==
    [k |-> "EntryFunctionABI", name |-> "transfer",
     module_name |-> [address |-> Addr(0, 1), name |-> "coin"], doc |-> "v2",
     ty_args |-> <<>>,
     args |-> <<[name |-> "amount", type_tag |-> [k |-> "TypeTagU8"]]>>]

MainABI ==
    [k |-> "TransactionScriptABI", name |-> "main", doc |-> "", code |-> <<1, 2>>,
     ty_args |-> <<>>,
     args |-> <<[name |-> "data",
                 type_tag |-> [k |-> "TypeTagVector", value |-> [k |-> "TypeTagU8"]]]>>]

AbiDocs == {ScriptABI_serialize(x) : x \in {TransferABI, TransferABI2, MainABI}}

Impls == {"part_000", "builders"}

Funcs == {"0x1::coin::transfer", "0x01::coin::transfer", "main"}

TyTagLists == {<<>>, <<"u64", "vector<0x1::aptos_coin::AptosCoin>">>, <<"u64", "vector<">>}

RawArgs == {[t |-> "number", num |-> <<10>>], [t |-> "number", num |-> <<0, 1>>],
            [t |-> "string", str |-> "0x01"]}

ArgLists == SeqsUpTo(RawArgs, MaxArgs)

SumFns ==
    <<Fn("f", TRUE, <<>>, <<"signer", "u64", "u64">>),
      Fn("g", TRUE, <<[constraints |-> <<>>]>>, <<"&signer", "u8">>),
      Fn("h", FALSE, <<>>, <<"u64">>)>>

Module(address, fns) == [abi |-> [address |-> address, name |-> "m", exposed_functions |-> fns]]

Modules ==
    {Module("0x1", SumFns), Module("0x01", SumFns), Module("0x0", SumFns),
     Module("0xAB", SumFns),
     Module("0x2", <<Fn("p", TRUE, <<>>, <<"u64", "signer", "u8">>),
                     Fn("d", TRUE, <<>>, <<"u8">>),
                     Fn("d", TRUE, <<>>, <<"signer", "u64", "u64">>)>>),
     ScriptBookModule}

RemoteFuncs ==
    {"0x1::m::f", "0x01::m::f", "0X001::m::f", "0x1::m::g", "0x1::m::h", "0x1::m",
     "0x0::m::f", "0xAB::m::f", "0x2::m::p", "0x2::m::d",
     ScriptBookModule.abi.address \o "::ScriptBook::test",
     ScriptBookModule.abi.address \o "::ScriptBook::sum_funct"}

CodecIdle ==
    /\ cpc = "idle"
    /\ cin = [mode |-> "none"]
    /\ wire = <<>>
    /\ cout = Fail("")

Init == CodecIdle /\ BuilderIdle

\* no invocation is running: the caller may start the next one
Ready == last.op \in {"none", "new", "returned"}

\* new TransactionBuilderABI(docs)
Construct ==
    /\ phase = "Unindexed"
    /\ Ready
    /\ \E im \in Impls, docs \in SeqsUpTo(AbiDocs, MaxAbis) :
       \E b \in {TransactionBuilderABI_new(docs)} :
          /\ phase' = IF b.err = "" THEN "Indexed" ELSE "Failed"
          /\ abiMap' = b.abiMap
          /\ last' = [op |-> "new", res |-> Thrown(b.err, "", 0)]
          /\ impl' = im
          /\ abis' = docs
    /\ UNCHANGED codecVars

\* builder.buildCall(func, ty_tags, args)
BuildCall ==
    /\ phase = "Indexed"
    /\ Ready
    /\ \E func \in Funcs, ty_tags \in TyTagLists, args \in ArgLists :
          last' = [op |-> "buildCall", func |-> func, ty_tags |-> ty_tags, args |-> args,
                   res |-> buildCall(impl, abiMap, func, ty_tags, args)]
    /\ UNCHANGED <<phase, impl, abis, abiMap>>
    /\ UNCHANGED codecVars

\* builder.build(func, ty_tags, args)
Build ==
    /\ phase = "Indexed"
    /\ Ready
    /\ \E func \in Funcs, ty_tags \in TyTagLists, args \in ArgLists :
          last' = [op |-> "build", func |-> func, ty_tags |-> ty_tags, args |-> args,
                   res |-> build(impl, abiMap, func, ty_tags, args)]
    /\ UNCHANGED <<phase, impl, abis, abiMap>>
    /\ UNCHANGED codecVars

\* TransactionBuilderRemoteABI.build(abi, func, ty_tags, args) of part_000 and
\* TransactionBuilderRemoteABI.build(func, ty_tags, args) of builders.ts, whose
\* fetchABI() has the module document built in
RemoteBuild ==
    /\ phase = "Unindexed"
    /\ Ready
    /\ \E im \in Impls :
       \E module \in IF im = "part_000" THEN Modules ELSE {ScriptBookModule} :
       \E func \in RemoteFuncs, ty_tags \in TyTagLists, args \in ArgLists :
          /\ last' = [op |-> "remoteBuild", module |-> module, func |-> func,
                      ty_tags |-> ty_tags, args |-> args,
                      res |-> remoteBuild(im, module, func, ty_tags, args)]
          /\ impl' = im
    /\ UNCHANGED <<phase, abis, abiMap>>
    /\ UNCHANGED codecVars

\* bcsToBytes(rawTxn) on the Transaction a build has returned
BcsToBytes ==
    /\ last.op \in {"build", "remoteBuild"}
    /\ last.res.err = ""
    /\ last' = [op |-> "bcsToBytes", of |-> last,
                bytes |-> Serialize("Transaction", last.res.tx)]
    /\ UNCHANGED <<phase, impl, abis, abiMap>>
    /\ UNCHANGED codecVars

\* the caller has taken the value returned, or caught the Error thrown
Return ==
    /\ ~Ready
    /\ last' = [op |-> "returned"]
    /\ UNCHANGED <<phase, impl, abis, abiMap>>
    /\ UNCHANGED codecVars

Next == Construct \/ BuildCall \/ Build \/ RemoteBuild \/ BcsToBytes \/ Return

Spec == Init /\ [][Next]_vars

(***************************************************************************)
(* Claims about the builder.                                               *)
(***************************************************************************)
\* the invocation in last returned a value
IsBuilt == last.op \in {"buildCall", "build", "remoteBuild"} /\ last.res.err = ""

\* the TxV1 of the value returned: buildCall returns it bare, build and the
\* remote build inside Transaction::V1
BuiltTxV1 == IF last.op = "buildCall" THEN last.res.tx ELSE last.res.tx.value

\* C4: every TxV1 returned by a successful buildCall, and so every
\* Transaction returned by build and by the remote-ABI build, has a signer
\* sequence of length exactly 1 whose only element is a Placeholder signer.
C4_SinglePlaceholder ==
    IsBuilt => BuiltTxV1.signers = <<[k |-> "SignerPlaceholder"]>>

\* buildCall was invoked for an indexed function with a number of arguments
\* other than the number of its declared parameters
ArityCase ==
    /\ last.op = "buildCall"
    /\ last.func \in DOMAIN abiMap
    /\ Len(abiMap[last.func].args) # Len(last.args)

\* C5 as claimed: for a function present in the index, buildCall with a
\* number of arguments different from the number of declared parameters
\* always fails with the arity error, before any argument is coerced.
C5_AlwaysArityError ==
    ArityCase => /\ last.res.err = ErrArity
                 /\ last.res.coerced = 0
                 /\ last.res.tx = NoTx

\* C5 as amended: for a function present in the index, buildCall with a
\* number of arguments different from the number of declared parameters
\* always fails before any argument is coerced and returns no TxV1; the
\* error is the arity error whenever every type-argument string parses.
C5_ArityBeforeCoercion ==
    ArityCase => /\ last.res.err # ""
                 /\ last.res.coerced = 0
                 /\ last.res.tx = NoTx
                 /\ parseTypeTags(last.ty_tags).ok => last.res.err = ErrArity

C5_Witness ==
    /\ ArityCase
    /\ Len(last.args) > 0
    /\ last.ty_tags # <<>>
    /\ last.res.err = ErrArity

\* the module document the remote build in last has read
FetchedModule == IF impl = "part_000" THEN last.module ELSE ScriptBookModule

IsSignerParam(p) == p \in {"signer", "&signer"}

\* the length of the run of signer parameters params starts with
RECURSIVE LeadingSigners(_)
LeadingSigners(params) ==
    IF params = <<>> \/ ~IsSignerParam(params[1]) THEN 0
    ELSE 1 + LeadingSigners(Tail(params))

\* the declared parameters of the function the remote build in last resolved
ResolvedParams == fetchABI(FetchedModule)[normlize(last.func)].params

\* the remote build in last resolved a function whose declared parameters
\* are a run of k >= 1 signer parameters followed by non-signer parameters
SignerRunCase ==
    /\ last.op = "remoteBuild"
    /\ normlize(last.func) \in DOMAIN fetchABI(FetchedModule)
    /\ LeadingSigners(ResolvedParams) >= 1
    /\ \A i \in (LeadingSigners(ResolvedParams) + 1)..Len(ResolvedParams) :
           ~IsSignerParam(ResolvedParams[i])

\* a call supplying exactly n arguments passes the arity check, and the TxV1
\* built has exactly n entries in args
ExactArgsPass ==
    LET n == Len(ResolvedParams) - LeadingSigners(ResolvedParams)
    IN  Len(last.args) = n =>
           /\ last.res.err # ErrArity
           /\ last.res.err = "" => Len(BuiltTxV1.args) = n

DocABI(doc) ==
    CASE doc = ScriptABI_serialize(TransferABI) -> TransferABI
      [] doc = ScriptABI_serialize(TransferABI2) -> TransferABI2
      [] doc = ScriptABI_serialize(MainABI) -> MainABI

DocKey(doc) ==
    IF DocABI(doc).k = "EntryFunctionABI" THEN "0x1::coin::transfer" ELSE "main"

HasConflict(docs) ==
    \E i, j \in 1..Len(docs) : i # j /\ DocKey(docs[i]) = DocKey(docs[j])

\* C7: constructing a TransactionBuilderABI from documents two of which map
\* to the same key fails with the conflicting-ABI error and yields no
\* builder; after a successful construction the index holds exactly one
\* entry per input document and no key was overwritten.
C7_ConflictOrOneEntryEach ==
    last.op = "new" =>
        /\ HasConflict(abis) =>
              /\ last.res.err = ErrConflict
              /\ phase = "Failed"
              /\ abiMap = EmptyMap
        /\ last.res.err = "" =>
              /\ phase = "Indexed"
              /\ Cardinality(DOMAIN abiMap) = Len(abis)
              /\ \A i \in 1..Len(abis) :
                    /\ DocKey(abis[i]) \in DOMAIN abiMap
                    /\ abiMap[DocKey(abis[i])] = DocABI(abis[i])

C7_Witness ==
    /\ phase = "Failed"
    /\ HasConflict(abis)
    /\ last.op = "new"
    /\ last.res.err = ErrConflict
    /\ abis[1] # abis[2]

\* C8: buildCall with a function name that is not a key of the index fails
\* with the unknown-function error and returns no TxV1, for every list of
\* type arguments that parses and every list of arguments.
C8_UnknownFunction ==
    (/\ last.op = "buildCall"
     /\ last.func \notin DOMAIN abiMap
     /\ parseTypeTags(last.ty_tags).ok) =>
        /\ last.res.err = ErrNoFunction
        /\ last.res.detail = last.func
        /\ last.res.tx = NoTx

C8_Witness ==
    /\ last.op = "buildCall"
    /\ "0x1::coin::transfer" \in DOMAIN abiMap
    /\ last.func = "0x01::coin::transfer"
    /\ last.ty_tags # <<>>
    /\ last.args # <<>>
    /\ last.res.err = ErrNoFunction

\* two spellings of one address: the 0x marker, then the same digits after
\* the redundant leading zeros
SameAddress(a, b) ==
    /\ StartsWith(a, "0x") \/ StartsWith(a, "0X")
    /\ StartsWith(b, "0x") \/ StartsWith(b, "0X")
    /\ StripZeros(StrDrop(a, 2)) = StripZeros(StrDrop(b, 2))

SameFunction(f, g) ==
    /\ Len(split(f, "::")) = 3
    /\ Len(split(g, "::")) = 3
    /\ SameAddress(split(f, "::")[1], split(g, "::")[1])
    /\ split(f, "::")[2] = split(g, "::")[2]
    /\ split(f, "::")[3] = split(g, "::")[3]

SameDocument(m, n) ==
    /\ SameAddress(m.abi.address, n.abi.address)
    /\ m.abi.name = n.abi.name
    /\ m.abi.exposed_functions = n.abi.exposed_functions

\* C9: in the remote-ABI build, two spellings of the same function that
\* differ only in redundant leading zeros of the address, in the caller's
\* function name or in the address field of the ABI document, resolve to the
\* same entry: both builds succeed with equal Transactions or both fail with
\* the same error.
C9_SpellingsAgree ==
    (last.op = "remoteBuild" /\ impl = "part_000") =>
        \A module \in Modules, func \in RemoteFuncs :
            (SameDocument(module, last.module) /\ SameFunction(func, last.func)) =>
                LET other == remoteBuild("part_000", module, func, last.ty_tags, last.args)
                IN  /\ other.err = last.res.err
                    /\ other.tx = last.res.tx

\* C10: after any sequence of buildCall and build invocations, successful or
\* failing, the index is identical to the index at the end of construction,
\* and every failing invocation returns no TxV1 at all.
C10_IndexReadOnly ==
    [][/\ phase = "Indexed" => (phase' = "Indexed" /\ abiMap' = abiMap /\ abis' = abis)
       /\ (last'.op \in {"buildCall", "build"} /\ last'.res.err # "") =>
              last'.res.tx = NoTx]_vars

C10_Witness ==
    /\ phase = "Indexed"
    /\ abiMap # EmptyMap
    /\ last.op = "build"
    /\ last.res.err = ErrArity
    /\ last.res.tx = NoTx

\* C13: build(func, ty_tags, args) succeeds exactly when buildCall(func,
\* ty_tags, args) succeeds, and then returns Transaction::V1 of the TxV1 that
\* buildCall returns; when buildCall fails, build fails with the same error
\* and never with 'Invalid ABI'.
C13_BuildWrapsBuildCall ==
    last.op = "build" =>
        \A r \in {buildCall(impl, abiMap, last.func, last.ty_tags, last.args)} :
            /\ (last.res.err = "") <=> (r.err = "")
            /\ r.err = "" => last.res.tx = [k |-> "TransactionV1", value |-> r.tx]
            /\ r.err # "" => (/\ last.res.err = r.err
                              /\ last.res.detail = r.detail
                              /\ last.res.tx = NoTx)
            /\ last.res.err # "Invalid ABI."

C13_Witness ==
    /\ last.op = "build"
    /\ last.res.err = ""
    /\ last.res.tx.k = "TransactionV1"
    /\ last.res.tx.value = buildCall(impl, abiMap, last.func, last.ty_tags, last.args).tx
    /\ Len(last.res.tx.value.args) = 2

\* the functions the fetched document lists under the name the build looks up
ListedAs(module, func) ==
    {i \in 1..Len(module.abi.exposed_functions) :
        module.abi.address \o "::" \o module.abi.name \o "::"
            \o module.abi.exposed_functions[i].name = func}

\* C14: the remote-ABI build only resolves functions that the ABI document
\* marks as entry points: for a function listed with is_entry false the build
\* fails with the function-does-not-exist error, and every successfully built
\* Transaction targets a function whose is_entry is true.
C14_EntryPointsOnly ==
    last.op = "remoteBuild" =>
        \A fns \in {FetchedModule.abi.exposed_functions} :
        \A listed \in {ListedAs(FetchedModule, normlize(last.func))} :
            /\ (listed # {} /\ \A i \in listed : ~fns[i].is_entry)
                  => (/\ last.res.err = ErrNotExist
                      /\ last.res.detail = normlize(last.func)
                      /\ last.res.tx = NoTx)
            /\ last.res.err = ""
                  => \E i \in listed :
                        /\ fns[i].is_entry
                        /\ BuiltTxV1.call.k = "CallEntryFunction"
                        /\ BuiltTxV1.call.value.function_name = fns[i].name
                        /\ BuiltTxV1.call.value.module_name = FetchedModule.abi.name

C14_Witness ==
    /\ last.op = "remoteBuild"
    /\ impl = "part_000"
    /\ last.func = "0x1::m::h"
    /\ last.module.abi.address = "0x1"
    /\ Len(last.args) = 1
    /\ last.ty_tags = <<>>
    /\ last.res.err = ErrNotExist

\* the call of the test: build(abi, "0xd435...a27d::ScriptBook::test", [], [])
IsTestCall(call) ==
    /\ call.op = "remoteBuild"
    /\ call.module = ScriptBookModule
    /\ call.func = ScriptBookModule.abi.address \o "::ScriptBook::test"
    /\ call.ty_tags = <<>>
    /\ call.args = <<>>

ScriptBookAddressBytes ==
    <<212, 53, 147, 199, 21, 253, 211, 28, 97, 20, 26, 189, 4, 169, 159, 214, 130, 44, 133, 88, 133, 76, 205, 227, 154, 86, 132, 231, 165, 109, 162, 125>>

IsResolved == last.op = "remoteBuild" /\ normlize(last.func) \in DOMAIN fetchABI(FetchedModule)

\* the declared parameters from the first non-signer parameter on
KeptParams == Drop(ResolvedParams, LeadingSigners(ResolvedParams))

C17_EarliestErrorReported ==
    last.op = "buildCall" =>
        IF ~parseTypeTags(last.ty_tags).ok
        THEN last.res.err = ErrTypeTag /\ last.res.coerced = 0
        ELSE IF last.func \notin DOMAIN abiMap
        THEN last.res.err = ErrNoFunction /\ last.res.detail = last.func
             /\ last.res.coerced = 0
        ELSE Len(last.args) # Len(abiMap[last.func].args)
                 => last.res.err = ErrArity /\ last.res.coerced = 0

C17_Witness ==
    /\ last.op = "buildCall"
    /\ last.func = "main"
    /\ last.func \in DOMAIN abiMap
    /\ parseTypeTags(last.ty_tags).ok
    /\ Len(last.args) = 2
    /\ ~serializeArg(last.args[1], abiMap[last.func].args[1].type_tag).ok
    /\ last.res.err = ErrArity

\* a malformed type-argument string together with an unknown function
C17_WitnessUnknown ==
    /\ last.op = "buildCall"
    /\ last.func \notin DOMAIN abiMap
    /\ ~parseTypeTags(last.ty_tags).ok
    /\ last.res.err = ErrTypeTag

\* C18: in every TxV1 returned by buildCall, args has the length of the
\* function's declared parameter list and args[i] is the encoding of the i-th
\* supplied argument against the i-th declared parameter type; type_args[i]
\* is the parse of the i-th supplied type-argument string.
C18_ArgsInLockStep ==
    (last.op = "buildCall" /\ last.res.err = "") =>
        \A declared \in {abiMap[last.func].args} :
            /\ Len(last.res.tx.args) = Len(declared)
            /\ Len(last.res.tx.args) = Len(last.args)
            /\ \A i \in 1..Len(declared) :
                  \A enc \in {serializeArg(last.args[i], declared[i].type_tag)} :
                      enc.ok /\ last.res.tx.args[i] = enc.v
            /\ Len(last.res.tx.type_args) = Len(last.ty_tags)
            /\ \A i \in 1..Len(last.ty_tags) :
                  \A tag \in {parseTypeTag(last.ty_tags[i])} :
                      tag.ok /\ last.res.tx.type_args[i] = tag.v

C18_Witness ==
    /\ last.op = "buildCall"
    /\ last.res.err = ""
    /\ last.func = "0x1::coin::transfer"
    /\ Len(last.res.tx.args) = 2
    /\ last.res.tx.args[1] = Zeros(31) \o <<1>>
    /\ last.res.tx.args[2] = <<10, 0, 0, 0, 0, 0, 0, 0>>
    /\ Len(last.res.tx.type_args) = 2
    /\ last.res.tx.type_args[1] = U64Tag
    /\ last.res.tx.type_args[2].k = "TypeTagVector"

\* C20: in the remote-ABI build the two lookups agree: whenever the
\* normalized function name is found in the map built from the fetched ABI
\* document, the lookup of the same name in the single-entry
\* TransactionBuilderABI constructed from it also succeeds, so build never
\* fails with 'Cannot find function' after the remote lookup succeeded.
C20_LookupsAgree ==
    IsResolved => last.res.err # ErrNoFunction

\* the entry function the document lists last under the name looked up
LaterListed ==
    CHOOSE i \in ListedAs(FetchedModule, normlize(last.func)) :
        /\ FetchedModule.abi.exposed_functions[i].is_entry
        /\ \A j \in ListedAs(FetchedModule, normlize(last.func)) :
               FetchedModule.abi.exposed_functions[j].is_entry => j <= i

IsNotSignerParam(p) == ~IsSignerParam(p)

\* C21: the map built from a fetched ABI document never raises a conflict:
\* when the document lists two entry functions with the same
\* address::module::name, the later one replaces the earlier one and build
\* uses the later one's parameter list; the remote-ABI build never fails with
\* the conflicting-ABI error.
C21_LaterEntryWins ==
    /\ last.op = "remoteBuild" => last.res.err # ErrConflict
    /\ IsResolved =>
          \A declared \in {SelectSeq(FetchedModule.abi.exposed_functions[LaterListed].params,
                                     IsNotSignerParam)} :
              /\ Len(last.args) # Len(declared) => last.res.err # ""
              /\ last.res.err = "" =>
                    /\ Len(BuiltTxV1.args) = Len(declared)
                    /\ \A i \in 1..Len(declared) :
                          BuiltTxV1.args[i]
                              = serializeArg(last.args[i], parseTypeTag(declared[i]).v).v

C21_Witness ==
    /\ last.op = "remoteBuild"
    /\ last.func = "0x2::m::d"
    /\ Cardinality(ListedAs(FetchedModule, normlize(last.func))) = 2
    /\ last.res.err = ""
    /\ Len(BuiltTxV1.args) = 2
    /\ Len(BuiltTxV1.args[1]) = 8

\* C22: buildCall does not compare the number of supplied type-argument
\* strings with the function's declared generic-type-parameter count: for a
\* known function with correct argument count and coercible arguments,
\* buildCall succeeds for every list of well-formed type-argument strings, of
\* any length, and the returned TxV1.type_args has as many elements as
\* strings were supplied.
C22_TypeArgCountUnchecked ==
    (/\ last.op = "buildCall"
     /\ last.func \in DOMAIN abiMap
     /\ parseTypeTags(last.ty_tags).ok
     /\ Len(last.args) = Len(abiMap[last.func].args)
     /\ \A i \in 1..Len(last.args) :
            serializeArg(last.args[i], abiMap[last.func].args[i].type_tag).ok)
      => (/\ last.res.err = ""
          /\ Len(last.res.tx.type_args) = Len(last.ty_tags))

C22_Witness ==
    /\ last.op = "buildCall"
    /\ last.func \in DOMAIN abiMap
    /\ Len(abiMap[last.func].ty_args) = 1
    /\ Len(last.ty_tags) = 2
    /\ last.res.err = ""
    /\ Len(last.res.tx.type_args) = 2

====
